---- MODULE Spec2Model ----
(***************************************************************************)
(* Model of the OCaml steganography + RSA program presented in             *)
(* src/content/projects/Steganography.md: the LSB image writer             *)
(* (overwrite_last_bit, insert_message), the key generator (z_gen,         *)
(* miller_rabin_test, prime_gen, e_gen, d_gen, private_key_gen) and the    *)
(* block encryption (plaintext_input_string, plaintext_encrypt,            *)
(* encrypt_and_return_message); and of the work partition of the C++/MPI   *)
(* N-body simulation (calculateForces, updatePositions).                   *)
(*                                                                         *)
(* Random.int / Random.int64 are modelled as nondeterministic choice over  *)
(* their whole range.  Zarith integers are unbounded; the operators below  *)
(* never form an intermediate value of 2^31 or more.                            *)
(***************************************************************************)
EXTENDS Integers, Sequences, FiniteSets, TLC

VARIABLES codec, mr, kg, rsa, nbody

vars == <<codec, mr, kg, rsa, nbody>>

(***************************************************************************)
(* Bounds of the model.                                                    *)
(***************************************************************************)
MaxWidth == 4
MaxHeight == 3
MaxPayload == 6
MaxCandidate == 30
MaxLen == 1
MaxMessage == 3
MaxHeader == 8
MaxBodies == 6
MaxProcesses == 3
MaxSteps == 2

(***************************************************************************)
(* Integer helpers.                                                        *)
(***************************************************************************)
Min(a, b) == IF a < b THEN a ELSE b

RECURSIVE Pow(_, _)
Pow(b, k) == IF k = 0 THEN 1 ELSE b * Pow(b, k - 1)

\* Z.rem, the remainder of Zarith's Z.(mod): it takes the sign of the dividend
Rem(a, b) == IF a >= 0 THEN a % b ELSE 0 - ((0 - a) % b)

\* a * b mod n for 0 <= a, b < n <= 2^24 without leaving 32 bits: b is
\* taken in four base-128 digits, most significant first
MulMod(a, b, n) ==
    LET r3 == (a * (b \div 2097152)) % n
        r2 == (((r3 * 128) % n) + ((a * ((b \div 16384) % 128)) % n)) % n
        r1 == (((r2 * 128) % n) + ((a * ((b \div 128) % 128)) % n)) % n
    IN  (((r1 * 128) % n) + ((a * (b % 128)) % n)) % n

\* Z.powm a b n by binary exponentiation, least significant bit first
\* (both products are in [0, n), the test sequences their evaluation)
RECURSIVE powm_acc(_, _, _, _)
powm_acc(result, base, exponent, n) ==
    IF exponent = 0 THEN result
    ELSE LET next_result == IF exponent % 2 = 1 THEN MulMod(result, base, n)
                            ELSE result
             next_base == MulMod(base, base, n)
         IN  IF next_result >= 0 /\ next_base >= 0
             THEN powm_acc(next_result, next_base, exponent \div 2, n)
             ELSE -1

powm(a, b, n) == powm_acc(1 % n, a % n, b, n)

mod_exp(a, b, n) == powm(a, b, n)

\* Z.gcd
RECURSIVE gcd(_, _)
gcd(a, b) == IF b = 0 THEN a ELSE gcd(b, a % b)

coprime(a, b) == gcd(a, b) = 1

\* extended Euclid: <<g, x, y>> with a * x + b * y = g = gcd(a, b)
RECURSIVE egcd(_, _)
egcd(a, b) ==
    IF b = 0 THEN <<a, 1, 0>>
    ELSE LET r == egcd(b, a % b)
         IN  <<r[1], r[3], r[2] - (a \div b) * r[3]>>

\* Z.invert a n when the inverse exists, the representative in [0, n)
invert(a, n) == egcd(a % n, n)[2] % n

\* Z.numbits
RECURSIVE numbits(_)
numbits(x) == IF x = 0 THEN 0 ELSE 1 + numbits(x \div 2)

\* primality by trial division, the yardstick of the properties below
IsPrime(x) == x >= 2 /\ \A k \in 2..(x - 1) : k * k > x \/ x % k # 0

(***************************************************************************)
(* 3. Encoding in the image.                                               *)
(***************************************************************************)
HeaderBits == 30

\* byte lor 1
LorOne(byte) == IF byte % 2 = 0 THEN byte + 1 ELSE byte

\* byte land 0xFE
LandFE(byte) == byte - (byte % 2)

\* the '0' case left without its mask
overwrite_last_bit_keeps(byte, message_bit) ==
    CASE message_bit = "1" -> LorOne(byte)
      [] message_bit = "0" -> byte
      [] OTHER -> -1

\* the '1' case by addition instead of lor
overwrite_last_bit_adds(byte, message_bit) ==
    CASE message_bit = "1" -> byte + 1
      [] message_bit = "0" -> LandFE(byte)
      [] OTHER -> -1

overwrite_last_bit(byte, message_bit) ==
    CASE message_bit = "1" -> LorOne(byte)
      [] message_bit = "0" -> LandFE(byte)
      [] OTHER -> -1

\* the 30-character binary string of a length, most significant bit first
int_to_fixed_length_binary(width, v) ==
    [k \in 1..width |-> IF (v \div Pow(2, width - k)) % 2 = 1 THEN "1" ELSE "0"]

\* insert_message after string_to_binary: binary_message is the payload
\* bitstream, the result is the image written to output.ppm
insert_message(img, binary_message) ==
    LET image_size == img.width * img.height * 3
        binary_length == int_to_fixed_length_binary(HeaderBits, Len(binary_message))
        full_message == binary_length \o binary_message
    IN  [width |-> img.width, height |-> img.height, max_val |-> img.max_val,
         buffer |-> [i \in 1..image_size |->
                        IF i <= Len(full_message)
                        THEN overwrite_last_bit(img.buffer[i], full_message[i])
                        ELSE img.buffer[i]]]

\* the decoder: the length from the low bits of the first 30 bytes, then
\* that many low bits
LastBit(byte) == IF byte % 2 = 1 THEN "1" ELSE "0"

\* the low bits of the channel bytes in scan order
LowBits(img) == [k \in 1..Len(img.buffer) |-> LastBit(img.buffer[k])]

RECURSIVE binary_to_int(_)
binary_to_int(bits) ==
    IF bits = <<>> THEN 0
    ELSE 2 * binary_to_int(SubSeq(bits, 1, Len(bits) - 1))
         + (IF bits[Len(bits)] = "1" THEN 1 ELSE 0)

Capacity(img) == img.width * img.height * 3

HeaderLength(img) ==
    binary_to_int([k \in 1..HeaderBits |-> LastBit(img.buffer[k])])

\* a decoder that stops at the end of the buffer instead of failing
extract_message_clamped(img) ==
    IF Capacity(img) < HeaderBits THEN [status |-> "CorruptHeader", bits |-> <<>>]
    ELSE [status |-> "ok",
          bits |-> [k \in 1..Min(HeaderLength(img), Capacity(img) - HeaderBits) |->
                       LastBit(img.buffer[HeaderBits + k])]]

extract_message(img) ==
    IF Capacity(img) < HeaderBits THEN [status |-> "CorruptHeader", bits |-> <<>>]
    ELSE IF HeaderLength(img) > Capacity(img) - HeaderBits
         THEN [status |-> "CorruptHeader", bits |-> <<>>]
         ELSE [status |-> "ok",
               bits |-> [k \in 1..HeaderLength(img) |->
                            LastBit(img.buffer[HeaderBits + k])]]

\* carrier images: a few byte patterns for every size
Carriers(size) ==
    { [i \in 1..size |-> 0],
      [i \in 1..size |-> 255],
      [i \in 1..size |-> IF i % 2 = 0 THEN 254 ELSE 1],
      [i \in 1..size |-> (i * 53 + 7) % 256] }

Images ==
    UNION { { [width |-> w, height |-> h, max_val |-> "255", buffer |-> b] :
                b \in Carriers(w * h * 3) } :
            w \in 1..MaxWidth, h \in 1..MaxHeight }

Bitstreams == UNION { [1..l -> {"0", "1"}] : l \in 0..MaxPayload }

NoImage == [width |-> 0, height |-> 0, max_val |-> "", buffer |-> <<>>]

CodecIdle ==
    [pc |-> "idle", image |-> NoImage, message |-> <<>>, output |-> NoImage,
     status |-> "", decoded |-> <<>>]

MrIdle == [pc |-> "idle"]
KgIdle == [pc |-> "idle"]
RsaIdle == [pc |-> "idle"]
NbIdle == [pc |-> "idle"]

CodecInit ==
    /\ mr = MrIdle /\ kg = KgIdle /\ rsa = RsaIdle /\ nbody = NbIdle
    /\ codec \in { [pc |-> "loaded", image |-> img, message |-> b, output |-> NoImage,
                    status |-> "", decoded |-> <<>>] :
                   img \in Images, b \in Bitstreams }

\* ./encode: insert_message has no failure path, it always writes output.ppm
Encode ==
    /\ codec.pc = "loaded"
    /\ codec' = [codec EXCEPT !.pc = "encoded",
                              !.output = insert_message(codec.image, codec.message),
                              !.status = "ok"]
    /\ UNCHANGED <<mr, kg, rsa, nbody>>

\* ./decode on output.ppm
Decode ==
    /\ codec.pc = "encoded"
    /\ LET r == extract_message(codec.output)
       IN  codec' = [codec EXCEPT !.pc = "decoded",
                                  !.status = r.status,
                                  !.decoded = r.bits]
    /\ UNCHANGED <<mr, kg, rsa, nbody>>

CodecNext == Encode \/ Decode

SpecCodec ==
    CodecInit /\ [][CodecNext]_vars

Fits(c) == HeaderBits + Len(c.message) <= Capacity(c.image)

\* C1: for every carrier image and every bitstream B with
\* 30 + len(B) <= width*height*3, decoding the encoded image gives back
\* exactly B, whatever the carrier bytes were.
ImageRoundTrip ==
    (codec.pc = "decoded" /\ Fits(codec)) =>
        (codec.status = "ok" /\ codec.decoded = codec.message)

ImageRoundTripWitness ==
    /\ codec.pc = "decoded"
    /\ Fits(codec)
    /\ Len(codec.message) = 3
    /\ codec.image.buffer # codec.output.buffer
    /\ codec.decoded = codec.message

\* C2: encode fails with PayloadTooLarge exactly when
\* 30 + len(payload) > width*height*3 and succeeds at equality; an
\* over-long payload never ends up truncated in an output image.
CapacityBoundary ==
    codec.pc = "encoded" =>
        /\ (codec.status = "PayloadTooLarge") <=> ~Fits(codec)
        /\ Fits(codec) => codec.status = "ok"

\* header ++ payloadBits as insert_message builds it
FullMessage(c) ==
    int_to_fixed_length_binary(HeaderBits, Len(c.message)) \o c.message

\* C13: in every image produced by encode, the low bits of the first 30
\* bytes, in scan order, are the 30-bit big-endian binary of the number of
\* payload bits embedded after them, len(payloadBits), and bit k of
\* header ++ payloadBits is the low bit of byte k, for every k.
LengthHeader ==
    codec.pc = "encoded" =>
        /\ Len(codec.output.buffer) >= HeaderBits + Len(codec.message)
        /\ \A k \in 1..(HeaderBits + Len(codec.message)) :
              LastBit(codec.output.buffer[k]) = FullMessage(codec)[k]

\* the same for the payloads that fit the carrier
LengthHeaderWhenFits ==
    (codec.pc = "encoded" /\ Fits(codec)) =>
        /\ SubSeq(LowBits(codec.output), 1, HeaderBits)
             = int_to_fixed_length_binary(HeaderBits, Len(codec.message))
        /\ \A k \in 1..(HeaderBits + Len(codec.message)) :
              LastBit(codec.output.buffer[k]) = FullMessage(codec)[k]

\* the bits of header ++ payloadBits that the carrier has room for
LengthHeaderPrefix ==
    codec.pc = "encoded" =>
        \A k \in 1..Min(HeaderBits + Len(codec.message), Capacity(codec.image)) :
            LastBit(codec.output.buffer[k]) = FullMessage(codec)[k]

\* C14: the frame of encode: for every image and accepted bitstream, every
\* byte at (0-based) index >= 30 + len(payloadBits) is the same in the
\* output image, every byte at a lower index keeps its upper 7 bits (its
\* value changes by at most 1 and stays within 0..255), and the header
\* fields width, height and maxVal are unchanged.
EncodeFrame ==
    (codec.pc = "encoded" /\ codec.status = "ok") =>
        /\ codec.output.width = codec.image.width
        /\ codec.output.height = codec.image.height
        /\ codec.output.max_val = codec.image.max_val
        /\ Len(codec.output.buffer) = Len(codec.image.buffer)
        /\ \A i \in 1..Len(codec.image.buffer) :
              LET before == codec.image.buffer[i]
                  after == codec.output.buffer[i]
              IN  IF i > HeaderBits + Len(codec.message)
                  THEN after = before
                  ELSE /\ after \div 2 = before \div 2
                       /\ after - before \in {0 - 1, 0, 1}
                       /\ after \in 0..255

EncodeFrameWitness ==
    /\ codec.pc = "encoded"
    /\ codec.status = "ok"
    /\ Fits(codec)
    /\ Len(codec.message) = 3
    /\ \E i \in 1..(HeaderBits + 3) : codec.output.buffer[i] # codec.image.buffer[i]
    /\ \E i \in (HeaderBits + 4)..Len(codec.image.buffer) :
          codec.output.buffer[i] = 255

(***************************************************************************)
(* ./decode on an image that ./encode did not write: any low bits.         *)
(***************************************************************************)
\* the 30-bit values found in the first ten pixels of a received image
HeaderValues ==
    (0..MaxHeader) \cup {Pow(2, HeaderBits - 1), Pow(2, HeaderBits) - 1}

\* the low bits after the header: all 0, all 1, or alternating
Fills == {"0", "1", "01"}

FillBit(fill, i) ==
    CASE fill = "0" -> "0"
      [] fill = "1" -> "1"
      [] OTHER -> IF i % 2 = 0 THEN "0" ELSE "1"

\* a P6 file whose channel bytes carry the given low bits
ReceivedImage(w, h, carrier, L, fill) ==
    LET header == int_to_fixed_length_binary(HeaderBits, L)
    IN  [width |-> w, height |-> h, max_val |-> "255",
         buffer |-> [i \in 1..(w * h * 3) |->
                        overwrite_last_bit(carrier[i],
                                           IF i <= HeaderBits THEN header[i]
                                           ELSE FillBit(fill, i))]]

ReceivedImages ==
    UNION { { ReceivedImage(w, h, carrier, L, fill) :
                carrier \in Carriers(w * h * 3), L \in HeaderValues, fill \in Fills } :
            w \in 1..MaxWidth, h \in 1..MaxHeight }

DecodeInit ==
    /\ mr = MrIdle /\ kg = KgIdle /\ rsa = RsaIdle /\ nbody = NbIdle
    /\ codec \in { [pc |-> "received", image |-> img, message |-> <<>>, output |-> img,
                    status |-> "", decoded |-> <<>>] :
                   img \in ReceivedImages }

\* ./decode on the received file
DecodeReceived ==
    /\ codec.pc = "received"
    /\ LET r == extract_message(codec.output)
       IN  codec' = [codec EXCEPT !.pc = "decoded",
                                  !.status = r.status,
                                  !.decoded = r.bits]
    /\ UNCHANGED <<mr, kg, rsa, nbody>>

DecodeNext == DecodeReceived

SpecDecode ==
    DecodeInit /\ [][DecodeNext]_vars

\* C11: decode reads the 30 header bits as the length L and fails with
\* CorruptHeader whenever L exceeds the remaining capacity
\* width*height*3 - 30; otherwise it returns exactly the L low bits that
\* follow the header, and it never reads past the end of the buffer, for
\* every image, whatever its low bits are.
DecodeHeaderSanity ==
    codec.pc = "decoded" =>
        LET img == codec.output
            cap == Capacity(img)
        IN  /\ codec.status \in {"ok", "CorruptHeader"}
            /\ cap < HeaderBits => codec.status = "CorruptHeader"
            /\ \A L \in HeaderValues :
                  (/\ cap >= HeaderBits
                   /\ SubSeq(LowBits(img), 1, HeaderBits)
                        = int_to_fixed_length_binary(HeaderBits, L))
                  => IF L > cap - HeaderBits
                     THEN codec.status = "CorruptHeader"
                     ELSE /\ codec.status = "ok"
                          /\ codec.decoded
                               = SubSeq(LowBits(img), HeaderBits + 1, HeaderBits + L)
            /\ codec.status = "ok" => HeaderBits + Len(codec.decoded) <= cap

DecodeHeaderSanityWitness ==
    /\ codec.pc = "decoded"
    /\ codec.status = "CorruptHeader"
    /\ Capacity(codec.output) >= HeaderBits
    /\ \E L \in 1..MaxHeader :
          SubSeq(LowBits(codec.output), 1, HeaderBits)
            = int_to_fixed_length_binary(HeaderBits, L)

\* a received image of enough capacity whose header is in range
DecodeReturnsPayload ==
    /\ codec.pc = "decoded"
    /\ codec.status = "ok"
    /\ Len(codec.decoded) = 3

(***************************************************************************)
(* 5. Results: the run on msg.txt, on a carrier of 10 x 10 pixels.         *)
(***************************************************************************)
ScenarioWidth == 10
ScenarioHeight == 10

\* "Message length: 1016 bits", 127 characters of serialized ciphertext
ScenarioPayloadBits == 1016

\* string_to_binary: eight bits for every character, most significant first
string_to_binary(codes) ==
    [k \in 1..(8 * Len(codes)) |->
        IF (codes[((k - 1) \div 8) + 1] \div Pow(2, 7 - ((k - 1) % 8))) % 2 = 1
        THEN "1" ELSE "0"]

\* Char.code of a decimal digit of Z.to_string
DigitCode(dg) == 48 + dg

\* serialized ciphertexts of the length of the run: decimal digit strings
ScenarioCiphertexts ==
    { [i \in 1..(ScenarioPayloadBits \div 8) |-> DigitCode((i * step + first) % 10)] :
        step \in {1, 3, 7}, first \in 0..9 }

ScenarioImages ==
    { [width |-> ScenarioWidth, height |-> ScenarioHeight, max_val |-> "255",
       buffer |-> b] : b \in Carriers(ScenarioWidth * ScenarioHeight * 3) }

ScenarioInit ==
    /\ mr = MrIdle /\ kg = KgIdle /\ rsa = RsaIdle /\ nbody = NbIdle
    /\ codec \in { [pc |-> "loaded", image |-> img, message |-> string_to_binary(c),
                    output |-> NoImage, status |-> "", decoded |-> <<>>] :
                   img \in ScenarioImages, c \in ScenarioCiphertexts }

SpecScenario ==
    ScenarioInit /\ [][CodecNext]_vars

\* C12: the concrete scenario: the encrypted "OCaml is the best language"
\* encoded into a carrier of 10 x 10 pixels (10*10*3 bits of capacity, 30 of
\* them for the length header) and decoded again comes back exactly, and
\* the length read from the header is the true payload bit length.
ScenarioRoundTrip ==
    codec.pc = "decoded" =>
        /\ codec.status = "ok"
        /\ codec.decoded = codec.message
        /\ HeaderLength(codec.output) = Len(codec.message)

\* the header alone survives: the length read back is the payload's
ScenarioHeaderLength ==
    codec.pc \in {"encoded", "decoded"} =>
        HeaderLength(codec.output) = Len(codec.message)

\* what is left of the payload in the written image
ScenarioTruncated ==
    codec.pc \in {"encoded", "decoded"} =>
        /\ Len(codec.output.buffer) = Capacity(codec.image)
        /\ HeaderBits + Len(codec.message) > Capacity(codec.image)

(***************************************************************************)
(* 7.1 RSA code: z_gen and the Miller-Rabin test.                          *)
(***************************************************************************)
\* z_gen len: len decimal digits, each Random.int 10, most significant first
RECURSIVE z_gen_acc(_, _)
z_gen_acc(len, acc) ==
    IF len = 0 THEN {acc}
    ELSE UNION { z_gen_acc(len - 1, acc * 10 + digit) : digit \in 0..9 }

z_gen(len) == z_gen_acc(len, 0)

\* ?(trails = 50)
DefaultTrails == 50

\* get_factor_q num; it does not return for num = 0
RECURSIVE get_factor_q(_)
get_factor_q(num) ==
    IF Rem(num, 2) = 0 THEN get_factor_q(num \div 2) ELSE num

GetFactorQDiverges(num) == num = 0

\* Random.int64 (Z.to_int64 (Z.min n Int64.max_int)): a base in [0, n);
\* the bound 0 raises Invalid_argument
RandomBases(n) == 0..(n - 1)

\* miller_rabin_test'' expp for the base a: "pass" hands over to the next
\* trial, "fail" is the verdict false
RECURSIVE miller_rabin_base(_, _, _)
miller_rabin_base(n, a, expp) ==
    IF powm(a, expp, n) = 1 THEN "pass"
    ELSE IF expp = n - 1 THEN "fail"
    ELSE IF Rem(powm(a, expp, n), n) = n - 1
         THEN miller_rabin_base(n, a, expp * 2)
         ELSE "fail"

NoBase == 0 - 1

MrInit ==
    /\ codec = CodecIdle /\ kg = KgIdle /\ rsa = RsaIdle /\ nbody = NbIdle
    /\ mr \in { [pc |-> "call", n |-> n, q |-> 0, trails |-> DefaultTrails, a |-> NoBase] :
             n \in 0..MaxCandidate }

\* if Z.of_int 2 = n then true
MrTwo ==
    /\ mr.pc = "call" /\ mr.n = 2
    /\ mr' = [mr EXCEPT !.pc = "true"]
    /\ UNCHANGED <<codec, kg, rsa, nbody>>

\* let q = get_factor_q (Z.sub n Z.one), which loops on 0
MrFactorLoops ==
    /\ mr.pc = "call" /\ mr.n # 2 /\ GetFactorQDiverges(mr.n - 1)
    /\ mr' = [mr EXCEPT !.pc = "diverged"]
    /\ UNCHANGED <<codec, kg, rsa, nbody>>

MrFactor ==
    /\ mr.pc = "call" /\ mr.n # 2 /\ ~GetFactorQDiverges(mr.n - 1)
    /\ mr' = [mr EXCEPT !.pc = "trial", !.q = get_factor_q(mr.n - 1)]
    /\ UNCHANGED <<codec, kg, rsa, nbody>>

\* miller_rabin_test' 0
MrTrailsDone ==
    /\ mr.pc = "trial" /\ mr.trails = 0
    /\ mr' = [mr EXCEPT !.pc = "true"]
    /\ UNCHANGED <<codec, kg, rsa, nbody>>

\* Random.int64 0
MrRandomRaises ==
    /\ mr.pc = "trial" /\ mr.trails # 0 /\ mr.n <= 0
    /\ mr' = [mr EXCEPT !.pc = "raised"]
    /\ UNCHANGED <<codec, kg, rsa, nbody>>

MrTrialPass ==
    /\ mr.pc = "trial" /\ mr.trails # 0 /\ mr.n > 0
    /\ \E a \in RandomBases(mr.n) :
          /\ miller_rabin_base(mr.n, a, mr.q) = "pass"
          /\ mr' = [mr EXCEPT !.a = a, !.trails = mr.trails - 1]
    /\ UNCHANGED <<codec, kg, rsa, nbody>>

MrTrialFail ==
    /\ mr.pc = "trial" /\ mr.trails # 0 /\ mr.n > 0
    /\ \E a \in RandomBases(mr.n) :
          /\ miller_rabin_base(mr.n, a, mr.q) = "fail"
          /\ mr' = [mr EXCEPT !.a = a, !.pc = "false"]
    /\ UNCHANGED <<codec, kg, rsa, nbody>>

MrNext ==
    \/ MrTwo \/ MrFactorLoops \/ MrFactor \/ MrTrailsDone
    \/ MrRandomRaises \/ MrTrialPass \/ MrTrialFail

SpecMR ==
    MrInit /\ [][MrNext]_vars

\* what a whole call miller_rabin_test n can end in.  The trials draw their
\* bases independently, so true is possible exactly when some base passes
\* (drawn in every trial) and false exactly when some base fails.
miller_rabin_test(n) ==
    IF n = 2 THEN {"true"}
    ELSE IF GetFactorQDiverges(n - 1) THEN {"diverged"}
    ELSE IF n <= 0 THEN {"raised"}
    ELSE { IF miller_rabin_base(n, a, get_factor_q(n - 1)) = "pass"
           THEN "true" ELSE "false" : a \in RandomBases(n) }

MrReturned == mr.pc \in {"true", "false", "raised", "diverged"}

\* the step machine ends only in outcomes of miller_rabin_test
MrOutcomeSound == MrReturned => mr.pc \in miller_rabin_test(mr.n)

\* a is a Miller-Rabin witness of the compositeness of n: with
\* n - 1 = 2^s * q, q odd, a^q is not 1 and no a^(2^r q), r < s, is n - 1
RECURSIVE TwoPower(_)
TwoPower(x) == IF x % 2 = 0 THEN 1 + TwoPower(x \div 2) ELSE 0

IsWitness(n, a) ==
    LET s == TwoPower(n - 1)
        q == (n - 1) \div Pow(2, s)
    IN  /\ powm(a, q, n) # 1
        /\ \A r \in 0..(s - 1) : powm(a, q * Pow(2, r), n) # n - 1

\* C7: the test answers true for every prime n whatever bases are drawn,
\* and false for a composite n as soon as a drawn base is a Miller-Rabin
\* witness of its compositeness.
PrimalityVerdicts ==
    /\ (IsPrime(mr.n) /\ MrReturned) => mr.pc = "true"
    /\ (mr.n >= 2 /\ ~IsPrime(mr.n) /\ mr.a # NoBase /\ IsWitness(mr.n, mr.a))
          => mr.pc = "false"

\* the part of C7 about composites, on its own
WitnessRejects ==
    (mr.n >= 2 /\ ~IsPrime(mr.n) /\ mr.a # NoBase /\ IsWitness(mr.n, mr.a))
        => mr.pc = "false"

\* the code answers false for the prime 5 on the base 2
PrimeRejected == mr.pc = "false" /\ mr.n = 5 /\ mr.a = 2

\* C15: the test answers true for 2, and false for every even n > 2
\* whatever bases are drawn, the verdict not depending on the random trials.
MillerRabinEdgeCases ==
    /\ (mr.n = 2 /\ MrReturned) => mr.pc = "true"
    /\ (mr.n > 2 /\ mr.n % 2 = 0 /\ MrReturned) => mr.pc = "false"

\* the part of C15 about 2, on its own: no base is drawn for it
TwoAccepted ==
    (mr.n = 2 /\ mr.pc # "call") => (mr.pc = "true" /\ mr.a = NoBase)

\* the even numbers the code can answer true on: a^(n-1) = 1 mod n for a
\* base a of [0, n), which a = 1 always is
EvenAcceptedOnlyByLiars ==
    (mr.n > 2 /\ mr.n % 2 = 0 /\ mr.pc = "true") =>
        (mr.a # NoBase /\ powm(mr.a, mr.n - 1, mr.n) = 1)

\* the candidates prime_gen hands to the test: z_gen of one or two digits
Candidates == z_gen(1) \cup z_gen(2)

\* C18: for every integer z_gen can produce for a length len >= 1, 0 and 1
\* included, miller_rabin_test terminates and returns a boolean
\* (get_factor_q terminates, the range of the random base is not empty,
\* the squaring recursion ends), and it returns false for 0 and for 1.
PrimalityTestTotal ==
    mr.n \in Candidates =>
        /\ mr.pc \notin {"diverged", "raised"}
        /\ (mr.n \in {0, 1} /\ MrReturned) => mr.pc = "false"

\* the same for the candidates from 2 on
PrimalityTestTotalFromTwo ==
    (mr.n \in Candidates /\ mr.n >= 2) => mr.pc \notin {"diverged", "raised"}

\* the two candidates the test does not answer on
ZeroRaises == (mr.n = 0 /\ MrReturned) => mr.pc = "raised"

OneDiverges == (mr.n = 1 /\ MrReturned) => mr.pc = "diverged"

(***************************************************************************)
(* 7.1 RSA code: prime_gen, e_gen, d_gen, private_key_gen.                 *)
(***************************************************************************)
Configs ==
    { [p_len |-> pl, q_len |-> ql, e_len |-> el] :
        pl \in 1..MaxLen, ql \in 1..MaxLen, el \in 1..MaxLen }

\* a let-binding that has not been evaluated yet
NoNumber == 0 - 1

KgInit ==
    /\ codec = CodecIdle /\ mr = MrIdle /\ rsa = RsaIdle /\ nbody = NbIdle
    /\ kg \in { [pc |-> "prime_p", rc |-> rc, cand |-> NoNumber, p |-> NoNumber,
              q |-> NoNumber, phi |-> NoNumber, e |-> NoNumber, d |-> NoNumber,
              n |-> NoNumber] : rc \in Configs }

\* one turn of prime_gen': p = z_gen len, then miller_rabin_test p
PrimeGenTurn(len, outcome, cand) ==
    /\ cand \in z_gen(len)
    /\ outcome \in miller_rabin_test(cand)

\* let p = prime_gen rc.p_len: the candidate passes
PrimeGenP ==
    /\ kg.pc = "prime_p"
    /\ \E cand \in z_gen(kg.rc.p_len) :
          /\ PrimeGenTurn(kg.rc.p_len, "true", cand)
          /\ kg' = [kg EXCEPT !.cand = cand, !.p = cand, !.pc = "prime_q"]
    /\ UNCHANGED <<codec, mr, rsa, nbody>>

\* else prime_gen' len
PrimeGenPRetry ==
    /\ kg.pc = "prime_p"
    /\ \E cand \in z_gen(kg.rc.p_len) :
          /\ PrimeGenTurn(kg.rc.p_len, "false", cand)
          /\ kg' = [kg EXCEPT !.cand = cand]
    /\ UNCHANGED <<codec, mr, rsa, nbody>>

\* the candidate 0: Random.int64 0 raises Invalid_argument
PrimeGenPRaises ==
    /\ kg.pc = "prime_p"
    /\ \E cand \in z_gen(kg.rc.p_len) :
          /\ PrimeGenTurn(kg.rc.p_len, "raised", cand)
          /\ kg' = [kg EXCEPT !.cand = cand, !.pc = "raised"]
    /\ UNCHANGED <<codec, mr, rsa, nbody>>

\* the candidate 1: get_factor_q 0 never returns
PrimeGenPLoops ==
    /\ kg.pc = "prime_p"
    /\ \E cand \in z_gen(kg.rc.p_len) :
          /\ PrimeGenTurn(kg.rc.p_len, "diverged", cand)
          /\ kg' = [kg EXCEPT !.cand = cand, !.pc = "diverged"]
    /\ UNCHANGED <<codec, mr, rsa, nbody>>

\* let q = prime_gen rc.q_len, then phi = (p - 1) * (q - 1)
PrimeGenQ ==
    /\ kg.pc = "prime_q"
    /\ \E cand \in z_gen(kg.rc.q_len) :
          /\ PrimeGenTurn(kg.rc.q_len, "true", cand)
          /\ kg' = [kg EXCEPT !.cand = cand, !.q = cand,
                              !.phi = (kg.p - 1) * (cand - 1), !.pc = "e_gen"]
    /\ UNCHANGED <<codec, mr, rsa, nbody>>

PrimeGenQRetry ==
    /\ kg.pc = "prime_q"
    /\ \E cand \in z_gen(kg.rc.q_len) :
          /\ PrimeGenTurn(kg.rc.q_len, "false", cand)
          /\ kg' = [kg EXCEPT !.cand = cand]
    /\ UNCHANGED <<codec, mr, rsa, nbody>>

PrimeGenQRaises ==
    /\ kg.pc = "prime_q"
    /\ \E cand \in z_gen(kg.rc.q_len) :
          /\ PrimeGenTurn(kg.rc.q_len, "raised", cand)
          /\ kg' = [kg EXCEPT !.cand = cand, !.pc = "raised"]
    /\ UNCHANGED <<codec, mr, rsa, nbody>>

PrimeGenQLoops ==
    /\ kg.pc = "prime_q"
    /\ \E cand \in z_gen(kg.rc.q_len) :
          /\ PrimeGenTurn(kg.rc.q_len, "diverged", cand)
          /\ kg' = [kg EXCEPT !.cand = cand, !.pc = "diverged"]
    /\ UNCHANGED <<codec, mr, rsa, nbody>>

\* e_gen': e = z_gen rc.e_len, kept when coprime e phi
EGen ==
    /\ kg.pc = "e_gen"
    /\ \E e \in z_gen(kg.rc.e_len) :
          /\ coprime(e, kg.phi)
          /\ kg' = [kg EXCEPT !.cand = e, !.e = e, !.pc = "d_gen"]
    /\ UNCHANGED <<codec, mr, rsa, nbody>>

\* else e_gen' phi
EGenRetry ==
    /\ kg.pc = "e_gen"
    /\ \E e \in z_gen(kg.rc.e_len) :
          /\ ~coprime(e, kg.phi)
          /\ kg' = [kg EXCEPT !.cand = e]
    /\ UNCHANGED <<codec, mr, rsa, nbody>>

\* what Z.invert e phi can give for coprime e and phi: the inverse; modulo 1
\* GMP before 6.0 reports no inverse (Division_by_zero), later ones give 0
mod_minv(e, phi) ==
    IF phi = 1 THEN {0, NoNumber} ELSE {invert(e, phi)}

d_gen(e, phi) == mod_minv(e, phi)

\* let d = d_gen e phi in { n = Z.mul p q; p; q; e; d }
DGen ==
    /\ kg.pc = "d_gen"
    /\ \E d \in d_gen(kg.e, kg.phi) :
          /\ d # NoNumber
          /\ kg' = [kg EXCEPT !.d = d, !.n = kg.p * kg.q, !.pc = "done"]
    /\ UNCHANGED <<codec, mr, rsa, nbody>>

DGenRaises ==
    /\ kg.pc = "d_gen"
    /\ NoNumber \in d_gen(kg.e, kg.phi)
    /\ kg' = [kg EXCEPT !.pc = "raised"]
    /\ UNCHANGED <<codec, mr, rsa, nbody>>

KgNext ==
    \/ PrimeGenP \/ PrimeGenPRetry \/ PrimeGenPRaises \/ PrimeGenPLoops
    \/ PrimeGenQ \/ PrimeGenQRetry \/ PrimeGenQRaises \/ PrimeGenQLoops
    \/ EGen \/ EGenRetry \/ DGen \/ DGenRaises

SpecKeyGen ==
    KgInit /\ [][KgNext]_vars

\* the random searches are fair: a candidate that is accepted with positive
\* probability in every turn is drawn sooner or later
FairKeyGen ==
    /\ SpecKeyGen
    /\ WF_vars(KgNext)
    /\ WF_vars(PrimeGenP) /\ WF_vars(PrimeGenQ) /\ WF_vars(EGen)

\* C4: for every key pair the generation returns and every m in [0, n),
\* (m^e mod n)^d mod n = m.
KeyValidity ==
    kg.pc = "done" =>
        \A m \in 0..(kg.n - 1) : powm(powm(m, kg.e, kg.n), kg.d, kg.n) = m

\* C5: every returned key pair has n = p*q, gcd(e, (p-1)(q-1)) = 1,
\* e*d mod (p-1)(q-1) = 1, and p and q prime.
KeyPairInvariant ==
    kg.pc = "done" =>
        /\ kg.n = kg.p * kg.q
        /\ gcd(kg.e, (kg.p - 1) * (kg.q - 1)) = 1
        /\ (kg.e * kg.d) % ((kg.p - 1) * (kg.q - 1)) = 1
        /\ IsPrime(kg.p) /\ IsPrime(kg.q)

\* C6: the two primes of every returned key pair differ.
DistinctPrimes == kg.pc = "done" => kg.p # kg.q

\* C8: key generation always comes to an end, with a key pair or with
\* KeyGenerationFailed once its retries are used up (an exception counts as
\* an end here); it never searches forever.
KeyGenTerminates ==
    <>(kg.pc \in {"done", "KeyGenerationFailed", "raised"})

\* C17: every public exponent e that key generation returns has
\* 1 < e < phi(n) and gcd(e, phi(n)) = 1, for every e_len and every outcome
\* of the random draws: e is never 0 or 1, the derived d never trivially 1.
PublicExponentRange ==
    kg.e # NoNumber =>
        /\ 1 < kg.e
        /\ kg.e < kg.phi
        /\ gcd(kg.e, kg.phi) = 1

\* the part of C17 that e_gen tests
PublicExponentCoprime ==
    kg.e # NoNumber => gcd(kg.e, kg.phi) = 1

\* a returned key whose exponents are both 1
TrivialExponent ==
    kg.pc = "done" /\ kg.p = 3 /\ kg.q = 5 /\ kg.e = 1 /\ kg.d = 1

(***************************************************************************)
(* 7.1 RSA code: encrypt_and_return_message and its helpers.               *)
(***************************************************************************)
\* the private keys private_key_gen_and_save returns for the drawn p, q, e
private_key(p, q, e) ==
    LET phi == (p - 1) * (q - 1)
    IN  { [n |-> p * q, p |-> p, q |-> q, e |-> e, d |-> d] :
            d \in d_gen(e, phi) \ {NoNumber} }

public_key_gen(pk) == [n |-> pk.n, e |-> pk.e]

\* prime_gen len can return cand: some base passes every trial
PrimeGenReturns(len, cand) ==
    /\ cand \in z_gen(len)
    /\ \/ cand = 2
       \/ /\ cand >= 3
          /\ \E a \in RandomBases(cand) :
                miller_rabin_base(cand, a, get_factor_q(cand - 1)) = "pass"

\* draws of the generator the block encryption is exercised with: moduli
\* of 4, 8, 16 and 24 bits
SampleDraws ==
    { <<1, 3, 5>>, <<2, 11, 13>>, <<3, 181, 191>>, <<4, 2903, 3001>> }

SampleExponents == {3, 7}

SampleKeys ==
    UNION { private_key(dr[2], dr[3], e) :
              dr \in { x \in SampleDraws : /\ PrimeGenReturns(x[1], x[2])
                                           /\ PrimeGenReturns(x[1], x[3]) },
              e \in SampleExponents }

\* e_gen keeps an exponent only when it is coprime to phi
GeneratedKeys ==
    { k \in SampleKeys : coprime(k.e, (k.p - 1) * (k.q - 1)) }

SampleBytes == {0, 65, 255}

Messages == UNION { [1..l -> SampleBytes] : l \in 0..MaxMessage }

\* plaintext_input_string s: the bytes of s as a base-256 number
RECURSIVE encode(_, _)
encode(acc, chars) ==
    IF chars = <<>> THEN acc
    ELSE encode(acc * 256 + Head(chars), Tail(chars))

plaintext_input_string(s) == [message |-> encode(0, s), types |-> "String"]

plaintext_encrypt(pt, pk) ==
    [c |-> powm(pt.message, pk.e, pk.n), types |-> pt.types]

\* Z.to_string for c >= 0
DigitChar(dg) == <<"0", "1", "2", "3", "4", "5", "6", "7", "8", "9">>[dg + 1]

RECURSIVE to_string(_)
to_string(c) ==
    IF c < 10 THEN <<DigitChar(c)>>
    ELSE to_string(c \div 10) \o <<DigitChar(c % 10)>>

serialize_ciphertext(c) == to_string(c)

RECURSIVE Reverse(_)
Reverse(l) == IF l = <<>> THEN <<>> ELSE Reverse(Tail(l)) \o <<Head(l)>>

RECURSIVE Concat(_, _)
Concat(sep, l) ==
    IF l = <<>> THEN <<>>
    ELSE IF Len(l) = 1 THEN l[1]
    ELSE l[1] \o sep \o Concat(sep, Tail(l))

\* encode_blocks msg acc for block_size >= 1: acc grows at its head
RECURSIVE encode_blocks(_, _, _, _)
encode_blocks(msg, acc, block_size, public_key) ==
    IF msg = <<>> THEN Reverse(acc)
    ELSE LET take == Min(block_size, Len(msg))
             block == SubSeq(msg, 1, take)
             remaining == SubSeq(msg, take + 1, Len(msg))
             encoded == plaintext_input_string(block)
             encrypted == plaintext_encrypt(encoded, public_key)
         IN  encode_blocks(remaining, <<serialize_ciphertext(encrypted.c)>> \o acc,
                           block_size, public_key)

\* the blocks String.sub cuts, in the order encode_blocks takes them
RECURSIVE Blocks(_, _)
Blocks(msg, block_size) ==
    IF msg = <<>> THEN <<>>
    ELSE <<SubSeq(msg, 1, Min(block_size, Len(msg)))>>
         \o Blocks(SubSeq(msg, Min(block_size, Len(msg)) + 1, Len(msg)), block_size)

NoKey == [n |-> 0, p |-> 0, q |-> 0, e |-> 0, d |-> 0]

RsaInit ==
    /\ codec = CodecIdle /\ mr = MrIdle /\ kg = KgIdle /\ nbody = NbIdle
    /\ rsa \in { [pc |-> "message", message |-> m, pk |-> NoKey, block_size |-> 0,
               blocks |-> <<>>, ciphertext |-> <<>>, status |-> "",
               recovered |-> <<>>] : m \in Messages }

\* encrypt_and_return_message message rc: the key is generated, the message
\* is cut into blocks of block_size characters, each is encrypted.
\* String.sub with a negative length raises Invalid_argument; with
\* block_size = 0 the remaining message never shrinks.
EncryptMessage ==
    /\ rsa.pc = "message"
    /\ \E pk \in GeneratedKeys :
          LET public_key == public_key_gen(pk)
              block_size == (numbits(pk.n) \div 8) - 1
          IN  rsa' =
                IF rsa.message = <<>> \/ block_size >= 1
                THEN [rsa EXCEPT
                        !.pc = "encrypted", !.pk = pk, !.block_size = block_size,
                        !.blocks = Blocks(rsa.message, block_size),
                        !.ciphertext =
                            Concat(<<" ">>, encode_blocks(rsa.message, <<>>,
                                                          block_size, public_key)),
                        !.status = "ok"]
                ELSE [rsa EXCEPT
                        !.pc = "encrypted", !.pk = pk, !.block_size = block_size,
                        !.status = IF block_size < 0 THEN "Invalid_argument"
                                   ELSE "diverged"]
    /\ UNCHANGED <<codec, mr, kg, nbody>>

\* the inverse pipeline: the decimal blocks of the ciphertext, each raised
\* to d modulo n, written back as bytes, concatenated in order
DigitValue(ch) == CHOOSE dg \in 0..9 : DigitChar(dg) = ch

RECURSIVE of_string(_, _)
of_string(acc, chars) ==
    IF chars = <<>> THEN acc
    ELSE of_string(acc * 10 + DigitValue(Head(chars)), Tail(chars))

RECURSIVE split_on_space(_, _)
split_on_space(chars, word) ==
    IF chars = <<>> THEN (IF word = <<>> THEN <<>> ELSE <<word>>)
    ELSE IF Head(chars) = " " THEN <<word>> \o split_on_space(Tail(chars), <<>>)
    ELSE split_on_space(Tail(chars), word \o <<Head(chars)>>)

RECURSIVE plaintext_output_string(_)
plaintext_output_string(m) ==
    IF m = 0 THEN <<>>
    ELSE plaintext_output_string(m \div 256) \o <<m % 256>>

ciphertext_decrypt(c, pk) == powm(c, pk.d, pk.n)

RECURSIVE decode_blocks(_, _)
decode_blocks(words, pk) ==
    IF words = <<>> THEN <<>>
    ELSE plaintext_output_string(ciphertext_decrypt(of_string(0, Head(words)), pk))
         \o decode_blocks(Tail(words), pk)

decrypt_message(ciphertext, pk) ==
    decode_blocks(split_on_space(ciphertext, <<>>), pk)

DecryptMessage ==
    /\ rsa.pc = "encrypted" /\ rsa.status = "ok"
    /\ rsa' = [rsa EXCEPT !.pc = "decrypted",
                          !.recovered = decrypt_message(rsa.ciphertext, rsa.pk)]
    /\ UNCHANGED <<codec, mr, kg, nbody>>

RsaNext == EncryptMessage \/ DecryptMessage

SpecRSA ==
    RsaInit /\ [][RsaNext]_vars

\* C3: for every plaintext (empty, longer than one block, with blocks that
\* begin with 0x00) and every generated key pair, encryption returns and
\* decrypting its result gives the plaintext back byte for byte.
MessageRoundTrip ==
    /\ rsa.pc = "encrypted" => rsa.status = "ok"
    /\ rsa.pc = "decrypted" => rsa.recovered = rsa.message

\* C9: the chunk size floor(bitLength(n)/8) - 1 is at least 1 and every
\* chunk of the message, read as a big-endian number, is below n.
BlocksFitModulus ==
    rsa.pc = "encrypted" =>
        /\ rsa.block_size >= 1
        /\ \A i \in 1..Len(rsa.blocks) :
              /\ Len(rsa.blocks[i]) <= rsa.block_size
              /\ plaintext_input_string(rsa.blocks[i]).message < rsa.pk.n

\* the i-th chunk of block_size bytes of a message, counted from the left
ChunkAt(msg, block_size, i) ==
    SubSeq(msg, (i - 1) * block_size + 1, Min(i * block_size, Len(msg)))

\* ceil(len / block_size)
ChunkCount(len, block_size) == (len + block_size - 1) \div block_size

\* the ciphertext lists, in order, the encryption of every chunk
BlocksInOrder(r) ==
    LET words == split_on_space(r.ciphertext, <<>>)
    IN  /\ Len(words) = ChunkCount(Len(r.message), r.block_size)
        /\ \A i \in 1..Len(words) :
              words[i] = to_string(powm(encode(0, ChunkAt(r.message, r.block_size, i)),
                                        r.pk.e, r.pk.n))

\* C16: encryptMessage outputs exactly ceil(len(bytes)/blockSize)
\* ciphertext blocks, the i-th being the encryption of the i-th chunk of the
\* plaintext taken left to right, for every message length, and the
\* serialized ciphertext lists the blocks in that order.
BlockOrder ==
    rsa.pc = "encrypted" =>
        /\ rsa.status = "ok"
        /\ rsa.block_size >= 1
        /\ BlocksInOrder(rsa)

\* the same for the keys whose block size is at least 1
BlockOrderWhenChunked ==
    (rsa.pc = "encrypted" /\ rsa.block_size >= 1) =>
        (rsa.status = "ok" /\ BlocksInOrder(rsa))

\* a message of three chunks, encrypted
ThreeBlocks ==
    /\ rsa.pc = "encrypted" /\ rsa.block_size = 1
    /\ Len(rsa.message) = 3 /\ rsa.message[1] # rsa.message[3]
    /\ BlocksInOrder(rsa)

(***************************************************************************)
(* plaintext_input_string and plaintext_encrypt on their own: a string     *)
(* and a public key go in, the ciphertext record comes out.                *)
(***************************************************************************)
\* strings whose number stays below 2^31
Representable(s) == Len(s) < 4 \/ (Len(s) = 4 /\ s[1] < 128)

BlockInit ==
    /\ codec = CodecIdle /\ mr = MrIdle /\ kg = KgIdle /\ nbody = NbIdle
    /\ rsa \in { [pc |-> "string", s |-> m, pk |-> public_key_gen(k),
               message |-> NoNumber, c |-> NoNumber, status |-> ""] :
              m \in { x \in Messages : Representable(x) }, k \in GeneratedKeys }

PlaintextInputString ==
    /\ rsa.pc = "string"
    /\ rsa' = [rsa EXCEPT !.pc = "plaintext",
                          !.message = plaintext_input_string(rsa.s).message]
    /\ UNCHANGED <<codec, mr, kg, nbody>>

\* plaintext_encrypt has no failure path: Z.powm answers for every pt
PlaintextEncrypt ==
    /\ rsa.pc = "plaintext"
    /\ rsa' = [rsa EXCEPT
                 !.pc = "ciphertext",
                 !.c = plaintext_encrypt([message |-> rsa.message, types |-> "String"],
                                         rsa.pk).c,
                 !.status = "ok"]
    /\ UNCHANGED <<codec, mr, kg, nbody>>

BlockNext == PlaintextInputString \/ PlaintextEncrypt

SpecBlock ==
    BlockInit /\ [][BlockNext]_vars

\* m^e mod n by e multiplications
RECURSIVE RefPowMod(_, _, _)
RefPowMod(m, e, n) ==
    IF e = 0 THEN 1 % n ELSE MulMod(m % n, RefPowMod(m, e - 1, n), n)

\* C10: the block encryption returns m^e mod n for 0 <= m < n and fails
\* with PlaintextTooLarge for every other m, for which it returns no
\* ciphertext.
EncryptBlockPrecondition ==
    rsa.pc = "ciphertext" =>
        IF 0 <= rsa.message /\ rsa.message < rsa.pk.n
        THEN rsa.status = "ok" /\ rsa.c = RefPowMod(rsa.message, rsa.pk.e, rsa.pk.n)
        ELSE rsa.status = "PlaintextTooLarge" /\ rsa.c = NoNumber

\* the in-range half of C10 on its own
EncryptBlockInRange ==
    (rsa.pc = "ciphertext" /\ 0 <= rsa.message /\ rsa.message < rsa.pk.n) =>
        (rsa.status = "ok" /\ rsa.c = RefPowMod(rsa.message, rsa.pk.e, rsa.pk.n))

(***************************************************************************)
(* N-body simulation: the partition of the bodies among the MPI ranks.     *)
(* The physics is left out: a body records which ranks went through its    *)
(* velocity update and its position update in the current step.            *)
(***************************************************************************)
\* int bodiesPerProcess = numBodies / numProcesses
bodiesPerProcess(numBodies, numProcesses) == numBodies \div numProcesses

\* int startIdx = rank * bodiesPerProcess
startIdx(rank, numBodies, numProcesses) ==
    rank * bodiesPerProcess(numBodies, numProcesses)

\* int endIdx = startIdx + bodiesPerProcess
endIdx(rank, numBodies, numProcesses) ==
    startIdx(rank, numBodies, numProcesses) + bodiesPerProcess(numBodies, numProcesses)

\* for (int i = startIdx; i < endIdx; ++i)
RankRange(rank, numBodies, numProcesses) ==
    startIdx(rank, numBodies, numProcesses)..(endIdx(rank, numBodies, numProcesses) - 1)

Ranks(s) == 0..(s.numProcesses - 1)

Bodies(s) == 0..(s.numBodies - 1)

NbInit ==
    /\ codec = CodecIdle /\ mr = MrIdle /\ kg = KgIdle /\ rsa = RsaIdle
    /\ nbody \in { [pc |-> "step", numBodies |-> n, numProcesses |-> p, step |-> 1,
                    at |-> [rank \in 0..(p - 1) |-> "calculateForces"],
                    velocity |-> [i \in 0..(n - 1) |-> {}],
                    position |-> [i \in 0..(n - 1) |-> {}]] :
                   n \in 0..MaxBodies, p \in 1..MaxProcesses }

\* calculateForces(bodies, rank, numProcesses) on one rank
CalculateForces ==
    /\ nbody.pc = "step"
    /\ \E rank \in Ranks(nbody) :
          /\ nbody.at[rank] = "calculateForces"
          /\ nbody' = [nbody EXCEPT
                          !.at[rank] = "updatePositions",
                          !.velocity = [i \in Bodies(nbody) |->
                              IF i \in RankRange(rank, nbody.numBodies, nbody.numProcesses)
                              THEN nbody.velocity[i] \cup {rank}
                              ELSE nbody.velocity[i]]]
    /\ UNCHANGED <<codec, mr, kg, rsa>>

\* updatePositions(bodies, dt, rank, numProcesses) on one rank
UpdatePositions ==
    /\ nbody.pc = "step"
    /\ \E rank \in Ranks(nbody) :
          /\ nbody.at[rank] = "updatePositions"
          /\ nbody' = [nbody EXCEPT
                          !.at[rank] = "MPI_Allgather",
                          !.position = [i \in Bodies(nbody) |->
                              IF i \in RankRange(rank, nbody.numBodies, nbody.numProcesses)
                              THEN nbody.position[i] \cup {rank}
                              ELSE nbody.position[i]]]
    /\ UNCHANGED <<codec, mr, kg, rsa>>

\* MPI_Allgather: every rank has updated its bodies, the step is over
Allgather ==
    /\ nbody.pc = "step"
    /\ \A rank \in Ranks(nbody) : nbody.at[rank] = "MPI_Allgather"
    /\ nbody' = [nbody EXCEPT !.pc = "gathered"]
    /\ UNCHANGED <<codec, mr, kg, rsa>>

\* the next iteration of the simulation loop
NextStep ==
    /\ nbody.pc = "gathered" /\ nbody.step < MaxSteps
    /\ nbody' = [nbody EXCEPT
                    !.pc = "step", !.step = nbody.step + 1,
                    !.at = [rank \in Ranks(nbody) |-> "calculateForces"],
                    !.velocity = [i \in Bodies(nbody) |-> {}],
                    !.position = [i \in Bodies(nbody) |-> {}]]
    /\ UNCHANGED <<codec, mr, kg, rsa>>

NbNext == CalculateForces \/ UpdatePositions \/ Allgather \/ NextStep

SpecNBody ==
    NbInit /\ [][NbNext]_vars

\* C19: for every number of bodies N and of processes P >= 1 the ranges
\* [rank*(N div P), rank*(N div P) + (N div P)) of the ranks 0..P-1 are
\* pairwise disjoint and together cover every body index 0..N-1, so that in
\* each step every body has its velocity and its position updated by
\* exactly one rank, and a rank writes only bodies of its own range.
WorkPartition ==
    LET N == nbody.numBodies
        P == nbody.numProcesses
    IN  /\ \A i \in Bodies(nbody) :
              \A rank \in nbody.velocity[i] \cup nbody.position[i] :
                  i \in RankRange(rank, N, P)
        /\ nbody.pc = "gathered" =>
              /\ \A r1, r2 \in Ranks(nbody) :
                    r1 # r2 => RankRange(r1, N, P) \cap RankRange(r2, N, P) = {}
              /\ UNION { RankRange(rank, N, P) : rank \in Ranks(nbody) } = Bodies(nbody)
              /\ \A i \in Bodies(nbody) :
                    /\ Cardinality(nbody.velocity[i]) = 1
                    /\ Cardinality(nbody.position[i]) = 1

\* the parts of C19 that hold: disjoint ranges, writes within the own range
RangesDisjoint ==
    /\ \A r1, r2 \in Ranks(nbody) :
          r1 # r2 => RankRange(r1, nbody.numBodies, nbody.numProcesses)
                       \cap RankRange(r2, nbody.numBodies, nbody.numProcesses) = {}
    /\ \A i \in Bodies(nbody) :
          /\ Cardinality(nbody.velocity[i]) <= 1
          /\ Cardinality(nbody.position[i]) <= 1
          /\ \A rank \in nbody.velocity[i] \cup nbody.position[i] :
                i \in RankRange(rank, nbody.numBodies, nbody.numProcesses)

\* the whole of C19 when the number of processes divides the number of bodies
CoveredWhenDivisible ==
    nbody.numBodies % nbody.numProcesses = 0 => WorkPartition

\* the bodies no rank updates: the last N mod P ones
LeftOver ==
    nbody.pc = "gathered" =>
        \A i \in Bodies(nbody) :
            (nbody.velocity[i] = {} /\ nbody.position[i] = {})
              <=> i >= nbody.numBodies - (nbody.numBodies % nbody.numProcesses)

====
